---------------------------- MODULE Spec2Model ----------------------------
(***************************************************************************)
(* Model of the professionals sign-up hub (backend/professionals):        *)
(*   - the Professional table with its two unique columns (models.py),     *)
(*   - the two serializers (serializers.py),                               *)
(*   - GET  /api/professionals/      list, ?source=  (views.py 11-17),     *)
(*   - POST /api/professionals/      single create   (views.py 11-17),     *)
(*   - POST /api/professionals/bulk  bulk upsert     (views.py 20-94).     *)
(*                                                                         *)
(* A request is served by a client thread.  Every database statement is    *)
(* one atomic step (Django autocommit); the steps of different requests    *)
(* interleave freely.  Python None is the value Null; a key that is        *)
(* missing from a dict is missing from the DOMAIN of the record.           *)
(***************************************************************************)
EXTENDS Integers, Sequences, FiniteSets, TLC

VARIABLES
    store,      \* the Professional table: sequence of rows, row k has id k
    pc,         \* per client: "idle" | "loop" | "write" | "c_save" | "done"
    op,         \* per client: the view serving / last served: "none" | "bulk" | "create"
    payload,    \* per client: request.data: the list of a bulk request, <<the candidate>> of a create
    index,      \* per client: loop variable of enumerate(request.data)
    created,    \* per client: the created bucket
    updated,    \* per client: the updated bucket
    errors,     \* per client: the errors bucket
    validated,  \* per client: serializer.validated_data of the current item
    existing,   \* per client: the fetched model instance, or NoRow
    status,     \* per client: HTTP status of the last response, 0 when none yet
    body,       \* per client: body of the last single-create or list response
    seen,       \* per client: the newest creation time in the table at the client's last read
    store0,     \* history: the table when the client's request started
    pre,        \* history: per client, the table as each item's processing started
    prev        \* history: per client, the previous single-record bulk call when the client repeats it next

vars == <<store, pc, op, payload, index, created, updated, errors, validated,
          existing, status, body, seen, store0, pre, prev>>

-----------------------------------------------------------------------------
(* Bounds of the model *)

MaxBatch == 2

Clients == {1, 2}

-----------------------------------------------------------------------------
(* Values *)

Null == "<None>"

NoRow == [id |-> 0]

NoCall == [payload |-> <<>>]

S16 == "AAAAAAAAAAAAAAAA"
S64 == S16 \o S16 \o S16 \o S16
LongName == S64 \o S64 \o S64 \o S64 \o "A"

EmailA == "a@x.io"
EmailB == "b@x.io"

\* models.py 5-8
SourceChoices == {"direct", "partner", "internal"}

\* models.py 10, 13, 14 (max_length of full_name, company_name, job_title)
NameMaxLength == 255
\* models.py 12
PhoneMaxLength == 20
\* models.py 11 (EmailField default max_length)
EmailMaxLength == 254

\* The addresses django's EmailValidator accepts, among the strings of the model.
WellFormedEmails == {EmailA, EmailB}

\* The columns a client may write (id and created_at are read-only).
WritableFields == {"full_name", "email", "phone", "company_name", "job_title", "source"}

\* models.py 10-15: column defaults applied by Model.__init__ to missing kwargs
ModelDefaults ==
    [full_name |-> "", email |-> Null, phone |-> "", company_name |-> "",
     job_title |-> "", source |-> ""]

Has(d, k) == k \in DOMAIN d

\* dict.get(k): the value, or None when the key is missing
Get(d, k) == IF k \in DOMAIN d THEN d[k] ELSE Null

\* Python truthiness of an optional string
Truthy(v) == v # Null /\ v # ""

Rows(st) == {st[k] : k \in 1..Len(st)}

-----------------------------------------------------------------------------
(* serializers.py: field validation *)

NoErr == "ok"

\* A CharField built from a model CharField: required / allow_null / allow_blank /
\* max_length.
CharFieldError(raw, f, required, allow_null, allow_blank, max_length) ==
    IF ~Has(raw, f) THEN (IF required THEN "required" ELSE NoErr)
    ELSE IF raw[f] = Null THEN (IF allow_null THEN NoErr ELSE "null")
    ELSE IF raw[f] = "" THEN (IF allow_blank THEN NoErr ELSE "blank")
    ELSE IF Len(raw[f]) > max_length THEN "max_length"
    ELSE NoErr

\* UniqueValidator(queryset=Professional.objects.all()): runs only on a value that
\* is neither None nor "" (the field returns before its validators otherwise).
UniqueError(st, raw, f) ==
    IF Has(raw, f) /\ Truthy(raw[f]) /\ \E r \in Rows(st) : r[f] = raw[f]
    THEN "unique" ELSE NoErr

EmailFieldError(raw) ==
    LET e == CharFieldError(raw, "email", FALSE, TRUE, TRUE, EmailMaxLength)
    IN  IF e # NoErr THEN e
        ELSE IF Has(raw, "email") /\ Truthy(raw.email) /\ raw.email \notin WellFormedEmails
        THEN "invalid"
        ELSE NoErr

SourceFieldError(raw) ==
    IF ~Has(raw, "source") THEN "required"
    ELSE IF raw.source = Null THEN "null"
    ELSE IF raw.source \notin SourceChoices THEN "invalid_choice"
    ELSE NoErr

\* The error of one field; unique says whether the unique validators are kept.
FieldError(st, raw, f, unique) ==
    LET first(a, b) == IF a # NoErr THEN a ELSE b
    IN  CASE f = "full_name"    -> CharFieldError(raw, f, TRUE, FALSE, FALSE, NameMaxLength)
          [] f = "email"        -> first(EmailFieldError(raw),
                                         IF unique THEN UniqueError(st, raw, f) ELSE NoErr)
          [] f = "phone"        -> first(CharFieldError(raw, f, TRUE, FALSE, FALSE, PhoneMaxLength),
                                         IF unique THEN UniqueError(st, raw, f) ELSE NoErr)
          [] f = "company_name" -> CharFieldError(raw, f, FALSE, FALSE, TRUE, NameMaxLength)
          [] f = "job_title"    -> CharFieldError(raw, f, FALSE, FALSE, TRUE, NameMaxLength)
          [] f = "source"       -> SourceFieldError(raw)

\* serializer.errors: field -> reason, for the fields that failed
SerializerErrors(st, raw, unique) ==
    LET bad == {f \in WritableFields : FieldError(st, raw, f, unique) # NoErr}
    IN  [f \in bad |-> FieldError(st, raw, f, unique)]

\* serializer.validated_data: the writable fields the input carries; a field the
\* input omits is not in it (the serializer fields have no default).
ValidatedData(raw) == [f \in (DOMAIN raw) \cap WritableFields |-> raw[f]]

\* BulkProfessionalItemSerializer: unique validators removed (extra_kwargs)
BulkErrors(raw) == SerializerErrors(<<>>, raw, FALSE)

\* Mutant: the result of is_valid() is not looked at.
BulkIsValid_Ignored(raw) == TRUE

BulkIsValid(raw) == DOMAIN BulkErrors(raw) = {}

\* ProfessionalSerializer: unique validators on email and phone
CreateErrors(st, raw) == SerializerErrors(st, raw, TRUE)

-----------------------------------------------------------------------------
(* models.py: the table and its unique constraints *)

\* Mutant: phone is not declared unique.
ConstraintOK_EmailOnly(st, row) ==
    \A r \in Rows(st) : r.id # row.id => (row.email # Null => r.email # row.email)

\* UNIQUE(email) and UNIQUE(phone) as the database enforces them on a write of
\* row: no other row holds the same phone, nor the same email unless it is NULL.
ConstraintOK(st, row) ==
    \A r \in Rows(st) :
        r.id # row.id =>
            /\ r.phone # row.phone
            /\ (row.email # Null => r.email # row.email)

\* The columns the clients cannot write: the primary key and created_at
\* (auto_now_add makes the field non-editable, models.py 16)
ReadOnlyFields == {"id", "created_at"}

\* Creation times are ranks: only their order matters.  Now is the newest one in
\* the table, 0 when the table is empty.
Now(st) ==
    IF st = <<>> THEN 0
    ELSE CHOOSE t \in {r.created_at : r \in Rows(st)} : \A r \in Rows(st) : r.created_at <= t

\* timezone.now() as read for an INSERT by a request whose last read of the table
\* saw since as the newest creation time.  The clock does not go back, so the
\* reading is not older than since; it may equal the creation time of a stored row
\* (the clock has not advanced between the two readings) or be newer than all of
\* them.  Rows another request inserted after that read may be older, equal or
\* newer.  The first row of a table gets rank 1.
ClockReadings(st, since) == IF st = <<>> THEN {1} ELSE since..(Now(st) + 1)

\* Model(**kwargs) and the INSERT: the column defaults overlaid with the given
\* fields, the next primary key, created_at = the clock reading t
NewRow(st, data, t) ==
    [f \in WritableFields \cup ReadOnlyFields |->
        IF f = "id" THEN Len(st) + 1
        ELSE IF f = "created_at" THEN t
        ELSE IF Has(data, f) THEN data[f] ELSE ModelDefaults[f]]

\* Mutant: the instance is rebuilt from the input, omitted fields take the defaults.
SetAttrs_Replace(obj, data) ==
    [f \in DOMAIN obj |->
        IF f \in ReadOnlyFields THEN obj[f]
        ELSE IF Has(data, f) THEN data[f] ELSE ModelDefaults[f]]

\* for field, value in validated.items(): setattr(existing, field, value)
SetAttrs(obj, data) ==
    [f \in DOMAIN obj |-> IF Has(data, f) THEN data[f] ELSE obj[f]]

\* Mutant: the INSERT is lost, the row is reported but not stored.
Insert_Lost(st, row) == st

\* INSERT of a new row
Insert(st, row) == Append(st, row)

\* Mutant: created_at is declared auto_now, every save() stamps it again.
Save_Touch(st, obj) == [st EXCEPT ![obj.id] = [obj EXCEPT !.created_at = Now(st) + 1]]

\* Mutant: save() is never called on the instance.
Save_Lost(st, obj) == st

\* Model.save() of a fetched instance: UPDATE of every column WHERE id = obj.id
Save(st, obj) == [st EXCEPT ![obj.id] = obj]

\* Professional.objects.filter(**{f: v}).first(), Meta.ordering = ['-created_at']
FilterFirst(st, f, v) ==
    LET hits == {r \in Rows(st) : r[f] = v}
    IN  IF hits = {} THEN NoRow
        ELSE CHOOSE r \in hits : \A q \in hits : q.created_at <= r.created_at

\* Mutant: the phone is tried before the email.
Lookup_PhoneFirst(st, email, phone) ==
    IF Truthy(phone) THEN FilterFirst(st, "phone", phone)
    ELSE IF Truthy(email) THEN FilterFirst(st, "email", email)
    ELSE NoRow

\* Mutant: no fallback to the phone.
Lookup_EmailOnly(st, email, phone) ==
    IF Truthy(email) THEN FilterFirst(st, "email", email) ELSE NoRow

\* views.py 60-65: the lookup of the existing record
Lookup(st, email, phone) ==
    IF Truthy(email) THEN FilterFirst(st, "email", email)
    ELSE IF Truthy(phone) THEN FilterFirst(st, "phone", phone)
    ELSE NoRow

\* Mutant: a rejected UPDATE still leaves the new full_name behind.
TryWrite_Partial(st, ex, data, t) ==
    LET row == IF ex # NoRow THEN SetAttrs(ex, data) ELSE NewRow(st, data, t)
    IN  IF ~ConstraintOK(st, row)
        THEN [ok |-> FALSE, row |-> row,
              store |-> IF ex # NoRow
                        THEN [st EXCEPT ![ex.id].full_name = row.full_name] ELSE st]
        ELSE IF ex # NoRow THEN [ok |-> TRUE, store |-> Save(st, row), row |-> row]
        ELSE [ok |-> TRUE, store |-> Insert(st, row), row |-> row]

\* views.py 68-82 / the INSERT of a single create: the write of one record.  The
\* fetched instance ex is overwritten and saved, or a new row is inserted with
\* the clock reading t when there is none; a write the constraints reject changes
\* nothing.
TryWrite(st, ex, data, t) ==
    LET row == IF ex # NoRow THEN SetAttrs(ex, data) ELSE NewRow(st, data, t)
    IN  IF ~ConstraintOK(st, row) THEN [ok |-> FALSE, store |-> st, row |-> row]
        ELSE IF ex # NoRow THEN [ok |-> TRUE, store |-> Save(st, row), row |-> row]
        ELSE [ok |-> TRUE, store |-> Insert(st, row), row |-> row]

-----------------------------------------------------------------------------
(* Bucket entries *)

IntegrityError == [non_field_errors |-> "IntegrityError"]
KeyRequired == [non_field_errors |-> "Either email or phone is required."]

OkEntry(i, row) == [index |-> i, professional |-> row]

\* Mutant: the index counts from one.
ErrEntry_OneBased(i, item, errs) == [index |-> i + 1, data |-> item, errors |-> errs]

ErrEntry(i, item, errs) == [index |-> i, data |-> item, errors |-> errs]

-----------------------------------------------------------------------------
(* Requests the clients send *)

\* The records sent under the name N2 come from a partner, the others are direct.
SourceOf(n) == IF n = "N2" THEN "partner" ELSE "direct"

Item(n, e, p) == [full_name |-> n, email |-> e, phone |-> p, source |-> SourceOf(n)]
ItemCo(n, e, p, co) ==
    [full_name |-> n, email |-> e, phone |-> p, company_name |-> co, source |-> SourceOf(n)]
PhoneOnly(n, p) == [full_name |-> n, phone |-> p, source |-> SourceOf(n)]

\* Records that pass field validation
ValidItems ==
    { Item("N1", EmailA, "1"),
      Item("N2", EmailA, "2"),
      Item("N2", EmailB, "2"),
      PhoneOnly("N2", "1"),
      ItemCo("N1", Null, "2", "C1"),
      Item("N1", "", "1"),
      Item("N2", "", "2") }

\* Records that fail it: no phone, an over-long name and a bad source; a blank name
\* and neither an email nor a phone
InvalidItems ==
    { [full_name |-> LongName, email |-> EmailB, source |-> "unknown"],
      [full_name |-> "", phone |-> "", source |-> "direct"] }

Items == ValidItems \cup InvalidItems

SeqsUpTo(S, n) == UNION {[1..k -> S] : k \in 0..n}

\* request.data of a bulk request: a list of records, or something that is no list
ListData(items) == [is_list |-> TRUE, items |-> items]
NotAList == [is_list |-> FALSE, items |-> <<>>]

BulkRequests == {ListData(l) : l \in SeqsUpTo(Items, MaxBatch)} \cup {NotAList}

\* The requests of the interleaved clients
ConcItems ==
    { Item("N1", EmailA, "1"),
      Item("N2", EmailA, "2"),
      PhoneOnly("N2", "1") }

ConcBulkRequests == {ListData(l) : l \in SeqsUpTo(ConcItems, MaxBatch)} \cup {NotAList}

-----------------------------------------------------------------------------
(* State *)

Init ==
    /\ store = <<>>
    /\ pc = [c \in Clients |-> "idle"]
    /\ op = [c \in Clients |-> "none"]
    /\ payload = [c \in Clients |-> <<>>]
    /\ index = [c \in Clients |-> 0]
    /\ created = [c \in Clients |-> <<>>]
    /\ updated = [c \in Clients |-> <<>>]
    /\ errors = [c \in Clients |-> <<>>]
    /\ validated = [c \in Clients |-> <<>>]
    /\ existing = [c \in Clients |-> NoRow]
    /\ status = [c \in Clients |-> 0]
    /\ body = [c \in Clients |-> <<>>]
    /\ seen = [c \in Clients |-> 0]
    /\ store0 = [c \in Clients |-> <<>>]
    /\ pre = [c \in Clients |-> <<>>]
    /\ prev = [c \in Clients |-> NoCall]

-----------------------------------------------------------------------------
(* POST /api/professionals/bulk: ProfessionalBulkUpsertView.post *)

\* views.py 24-33: a request out of requests arrives; a payload that is no list is
\* answered 400
BulkPost(c, requests) ==
    /\ pc[c] = "idle"
    /\ \E data \in (IF prev[c] = NoCall THEN requests ELSE {ListData(prev[c].payload)}) :
        /\ op' = [op EXCEPT ![c] = "bulk"]
        /\ payload' = [payload EXCEPT ![c] = data.items]
        /\ store0' = [store0 EXCEPT ![c] = store]
        /\ UNCHANGED prev
        /\ IF data.is_list
           THEN /\ pc' = [pc EXCEPT ![c] = "loop"]
                /\ UNCHANGED status
           ELSE /\ pc' = [pc EXCEPT ![c] = "done"]
                /\ status' = [status EXCEPT ![c] = 400]
    /\ UNCHANGED <<store, index, created, updated, errors, validated, existing, body,
                   seen, pre>>

\* views.py 35-65: the next item is validated, its lookup key chosen and the
\* existing record fetched (one SELECT)
BulkItem(c) ==
    /\ pc[c] = "loop"
    /\ index[c] < Len(payload[c])
    /\ LET item  == payload[c][index[c] + 1]
           data  == ValidatedData(item)
           email == Get(data, "email")
           phone == Get(data, "phone")
       IN  /\ pre' = [pre EXCEPT ![c] = Append(@, store)]
           /\ IF ~BulkIsValid(item)
              THEN /\ errors' = [errors EXCEPT ![c] =
                                    Append(@, ErrEntry(index[c], item, BulkErrors(item)))]
                   /\ index' = [index EXCEPT ![c] = @ + 1]
                   /\ UNCHANGED <<pc, validated, existing, seen>>
              ELSE IF ~Truthy(email) /\ ~Truthy(phone)
              THEN /\ errors' = [errors EXCEPT ![c] =
                                    Append(@, ErrEntry(index[c], item, KeyRequired))]
                   /\ index' = [index EXCEPT ![c] = @ + 1]
                   /\ validated' = [validated EXCEPT ![c] = data]
                   /\ UNCHANGED <<pc, existing, seen>>
              ELSE /\ validated' = [validated EXCEPT ![c] = data]
                   /\ existing' = [existing EXCEPT ![c] = Lookup(store, email, phone)]
                   /\ seen' = [seen EXCEPT ![c] = Now(store)]
                   /\ pc' = [pc EXCEPT ![c] = "write"]
                   /\ UNCHANGED <<errors, index>>
    /\ UNCHANGED <<store, op, payload, created, updated, status, body, store0, prev>>

\* views.py 67-88: the record is saved or inserted (one UPDATE or INSERT) and
\* reported; an IntegrityError is caught and reported in errors.  The INSERT
\* carries a clock reading; the UPDATE reads no clock (auto_now_add).
BulkWrite(c) ==
    /\ pc[c] = "write"
    /\ \E t \in (IF existing[c] # NoRow THEN {0} ELSE ClockReadings(store, seen[c])) :
       LET item == payload[c][index[c] + 1]
           w    == TryWrite(store, existing[c], validated[c], t)
       IN  /\ store' = w.store
           /\ existing' = [existing EXCEPT ![c] = IF @ # NoRow THEN w.row ELSE @]
           /\ IF ~w.ok
              THEN /\ errors' = [errors EXCEPT ![c] =
                                    Append(@, ErrEntry(index[c], item, IntegrityError))]
                   /\ UNCHANGED <<created, updated>>
              ELSE IF existing[c] # NoRow
              THEN /\ updated' = [updated EXCEPT ![c] = Append(@, OkEntry(index[c], w.row))]
                   /\ UNCHANGED <<created, errors>>
              ELSE /\ created' = [created EXCEPT ![c] = Append(@, OkEntry(index[c], w.row))]
                   /\ UNCHANGED <<updated, errors>>
    /\ index' = [index EXCEPT ![c] = @ + 1]
    /\ pc' = [pc EXCEPT ![c] = "loop"]
    /\ seen' = [seen EXCEPT ![c] = 0]
    /\ UNCHANGED <<op, payload, validated, status, body, store0, pre, prev>>

\* Mutant: the buckets are returned with the latest entry first.
BulkReturn_Reversed(c) ==
    LET Reverse(b) == [k \in 1..Len(b) |-> b[Len(b) + 1 - k]]
    IN  /\ pc[c] = "loop"
        /\ index[c] = Len(payload[c])
        /\ pc' = [pc EXCEPT ![c] = "done"]
        /\ status' = [status EXCEPT ![c] = 200]
        /\ created' = [created EXCEPT ![c] = Reverse(@)]
        /\ updated' = [updated EXCEPT ![c] = Reverse(@)]
        /\ errors' = [errors EXCEPT ![c] = Reverse(@)]
        /\ UNCHANGED <<store, op, payload, index, validated, existing, body, seen,
                       store0, pre, prev>>

\* Mutant: a batch with failed records is answered 207 instead of 200.
BulkReturn_MultiStatus(c) ==
    /\ pc[c] = "loop"
    /\ index[c] = Len(payload[c])
    /\ pc' = [pc EXCEPT ![c] = "done"]
    /\ status' = [status EXCEPT ![c] = IF errors[c] = <<>> THEN 200 ELSE 207]
    /\ UNCHANGED <<store, op, payload, index, created, updated, errors, validated,
                   existing, body, seen, store0, pre, prev>>

\* views.py 90-94: the list is consumed, the three buckets are returned with 200
BulkReturn(c) ==
    /\ pc[c] = "loop"
    /\ index[c] = Len(payload[c])
    /\ pc' = [pc EXCEPT ![c] = "done"]
    /\ status' = [status EXCEPT ![c] = 200]
    /\ UNCHANGED <<store, op, payload, index, created, updated, errors, validated,
                   existing, body, seen, store0, pre, prev>>

-----------------------------------------------------------------------------
(* POST /api/professionals/: ProfessionalListCreateView (CreateModelMixin) *)

\* serializer.is_valid(raise_exception=True) on a candidate record: field validation
\* with the unique validators (SELECTs); a failure is answered 400 with the errors
CreatePost(c, candidates) ==
    /\ pc[c] = "idle"
    /\ \E raw \in candidates :
        /\ IF DOMAIN CreateErrors(store, raw) # {}
           THEN /\ status' = [status EXCEPT ![c] = 400]
                /\ body' = [body EXCEPT ![c] = CreateErrors(store, raw)]
                /\ pc' = [pc EXCEPT ![c] = "done"]
                /\ UNCHANGED validated
           ELSE /\ validated' = [validated EXCEPT ![c] = ValidatedData(raw)]
                /\ pc' = [pc EXCEPT ![c] = "c_save"]
                /\ UNCHANGED <<status, body>>
        /\ payload' = [payload EXCEPT ![c] = <<raw>>]
    /\ op' = [op EXCEPT ![c] = "create"]
    /\ store0' = [store0 EXCEPT ![c] = store]
    /\ seen' = [seen EXCEPT ![c] = Now(store)]
    /\ prev' = [prev EXCEPT ![c] = NoCall]
    /\ UNCHANGED <<store, index, created, updated, errors, existing, pre>>

\* serializer.save(): Professional.objects.create(**validated_data) (one INSERT);
\* an IntegrityError is not caught by the view and ends the request with 500
CreateSave(c) ==
    /\ pc[c] = "c_save"
    /\ \E t \in ClockReadings(store, seen[c]) :
       LET w == TryWrite(store, NoRow, validated[c], t)
       IN  /\ store' = w.store
           /\ IF w.ok
              THEN /\ status' = [status EXCEPT ![c] = 201]
                   /\ body' = [body EXCEPT ![c] = w.row]
              ELSE /\ status' = [status EXCEPT ![c] = 500]
                   /\ UNCHANGED body
    /\ pc' = [pc EXCEPT ![c] = "done"]
    /\ seen' = [seen EXCEPT ![c] = 0]
    /\ UNCHANGED <<op, payload, index, created, updated, errors, validated, existing,
                   store0, pre, prev>>

-----------------------------------------------------------------------------
(* GET /api/professionals/: ProfessionalListCreateView (ListModelMixin) with    *)
(* ProfessionalFilter (filters.py)                                              *)

\* forms.CharField.clean of the filter's form field: surrounding whitespace is
\* stripped (the values of QueryParams that carry some are listed)
Strip(v) == IF v = " direct " THEN "direct" ELSE v

\* Mutant: the filter is not applied.
ProfessionalFilter_Off(st, q) == Rows(st)

\* filters.py 6-11: CharFilter(field_name='source', lookup_expr='exact').  Without
\* the parameter, or with a value that is empty once cleaned, the queryset is
\* left as it is; otherwise it is filtered on source = the cleaned value.
ProfessionalFilter(st, q) ==
    IF ~Has(q, "source") \/ Strip(q.source) = "" THEN Rows(st)
    ELSE {r \in Rows(st) : r.source = Strip(q.source)}

\* Mutant: the queryset is ordered by the primary key, oldest first.
OrderedQuery_ById(S) ==
    {s \in [1..Cardinality(S) -> S] :
        \A j, k \in 1..Cardinality(S) : j < k => s[j].id < s[k].id}

\* models.py 18-19: ORDER BY created_at DESC.  The results a SELECT may return for
\* the rows S: every arrangement with the newer row first; rows of one creation
\* time come in an order the database chooses.
OrderedQuery(S) ==
    {s \in [1..Cardinality(S) -> S] :
        /\ \A j, k \in 1..Cardinality(S) : j # k => s[j] # s[k]
        /\ \A j, k \in 1..Cardinality(S) : j < k => s[j].created_at >= s[k].created_at}

\* The query strings of the list requests
NoParams == [f \in {} |-> ""]
QueryParams ==
    {NoParams} \cup {[source |-> v] : v \in {"direct", "partner", "unknown", "", " direct "}}

\* One SELECT: the filtered queryset in its order, serialized, answered 200
List(c, queries) ==
    /\ pc[c] = "idle"
    /\ \E q \in queries : \E result \in OrderedQuery(ProfessionalFilter(store, q)) :
        /\ payload' = [payload EXCEPT ![c] = <<q>>]
        /\ body' = [body EXCEPT ![c] = result]
    /\ op' = [op EXCEPT ![c] = "list"]
    /\ status' = [status EXCEPT ![c] = 200]
    /\ pc' = [pc EXCEPT ![c] = "done"]
    /\ store0' = [store0 EXCEPT ![c] = store]
    /\ prev' = [prev EXCEPT ![c] = NoCall]
    /\ UNCHANGED <<store, index, created, updated, errors, validated, existing, seen, pre>>

-----------------------------------------------------------------------------
(* The response is delivered and the locals of the view are gone.  prev keeps   *)
(* a bulk call of one record when the client sends the same list again next     *)
(* (again); any other request follows a call that is not kept.                  *)

Finish(c) ==
    /\ pc[c] = "done"
    /\ pc' = [pc EXCEPT ![c] = "idle"]
    /\ \E again \in (IF op[c] = "bulk" /\ status[c] = 200 /\ Len(payload[c]) = 1
                     THEN BOOLEAN ELSE {FALSE}) :
           prev' = [prev EXCEPT ![c] =
                       IF again
                       THEN [payload |-> payload[c], store0 |-> store0[c],
                             created |-> created[c], updated |-> updated[c],
                             errors |-> errors[c], store |-> store]
                       ELSE NoCall]
    /\ op' = [op EXCEPT ![c] = "none"]
    /\ payload' = [payload EXCEPT ![c] = <<>>]
    /\ index' = [index EXCEPT ![c] = 0]
    /\ created' = [created EXCEPT ![c] = <<>>]
    /\ updated' = [updated EXCEPT ![c] = <<>>]
    /\ errors' = [errors EXCEPT ![c] = <<>>]
    /\ validated' = [validated EXCEPT ![c] = <<>>]
    /\ existing' = [existing EXCEPT ![c] = NoRow]
    /\ status' = [status EXCEPT ![c] = 0]
    /\ body' = [body EXCEPT ![c] = <<>>]
    /\ seen' = [seen EXCEPT ![c] = 0]
    /\ store0' = [store0 EXCEPT ![c] = <<>>]
    /\ pre' = [pre EXCEPT ![c] = <<>>]
    /\ UNCHANGED store

-----------------------------------------------------------------------------
(* Specifications *)

\* One client: requests are served one after the other.
Next ==
    \/ BulkPost(1, BulkRequests)
    \/ BulkItem(1)
    \/ BulkWrite(1)
    \/ BulkReturn(1)
    \/ CreatePost(1, Items)
    \/ CreateSave(1)
    \/ List(1, QueryParams)
    \/ Finish(1)

Spec == Init /\ [][Next]_vars

\* Two clients, one request each, on an empty table: the statements of the two
\* requests interleave in every order.
NextConc ==
    \E c \in Clients :
        \/ BulkPost(c, ConcBulkRequests)
        \/ BulkItem(c)
        \/ BulkWrite(c)
        \/ BulkReturn(c)
        \/ CreatePost(c, ConcItems)
        \/ CreateSave(c)

SpecConc == Init /\ [][NextConc]_vars

-----------------------------------------------------------------------------
(* Vocabulary of the properties *)

\* The bulk call of client c has answered 200 and its response is at hand.
Done(c) == pc[c] = "done" /\ op[c] = "bulk" /\ status[c] = 200

\* Client c is inside a bulk call (or at its response); index[c] records are processed.
InBulk(c) == op[c] = "bulk" /\ pc[c] \in {"loop", "write", "done"} /\ status[c] # 400

Indices(bucket) == {bucket[k].index : k \in 1..Len(bucket)}

\* The entry of a bucket for index i (the bucket holds one)
EntryOf(bucket, i) == bucket[CHOOSE k \in 1..Len(bucket) : bucket[k].index = i]

\* The zero-based record i of the batch of client c
Record(c, i) == payload[c][i + 1]

\* The table as the processing of record i began, and as it ended (one client)
StoreBefore(c, i) == pre[c][i + 1]
StoreAfter(c, i) == IF i + 2 <= Len(pre[c]) THEN pre[c][i + 2] ELSE store

\* The records of the model that pass field validation (§4.1 of the specification):
\* no field of theirs has an error, the unique validators left aside
ValidRecords ==
    {raw \in Items \cup ConcItems : DOMAIN SerializerErrors(<<>>, raw, FALSE) = {}}

PassesValidation(raw) == raw \in ValidRecords

\* The lookup key of a valid record: the email when it has one, otherwise the phone
KeyOf(raw) ==
    IF Truthy(Get(raw, "email")) THEN <<"email", raw.email>> ELSE <<"phone", raw.phone>>

\* The input's values are on the row, for the fields the input carries
Carries(row, raw) == \A f \in (DOMAIN raw) \cap WritableFields : row[f] = raw[f]

HoldsEmail(st, e) == \E r \in Rows(st) : r.email = e
HoldsPhone(st, p) == \E r \in Rows(st) : r.phone = p

IsIntegrityError(e) == e.errors = IntegrityError

-----------------------------------------------------------------------------
(* C1: the buckets of a bulk call partition the positions of the list.  While a   *)
(* call runs and when it has answered, the three buckets together hold as many    *)
(* entries as records were processed, every position processed so far is the      *)
(* index of exactly one entry of exactly one bucket, the entry is the one of the  *)
(* record at that position, and the answer comes when every position is          *)
(* processed (none is skipped after a failure; an empty list gives empty buckets).*)

C1_IndexPartition ==
    \A c \in Clients : InBulk(c) =>
        LET n == index[c]
            slots == {<<"created", k>> : k \in 1..Len(created[c])}
                     \cup {<<"updated", k>> : k \in 1..Len(updated[c])}
                     \cup {<<"errors", k>> : k \in 1..Len(errors[c])}
            at(sl) == IF sl[1] = "created" THEN created[c][sl[2]]
                      ELSE IF sl[1] = "updated" THEN updated[c][sl[2]]
                      ELSE errors[c][sl[2]]
        IN  /\ Len(created[c]) + Len(updated[c]) + Len(errors[c]) = n
            /\ \A i \in 0..(n - 1) : Cardinality({sl \in slots : at(sl).index = i}) = 1
            /\ \A k \in 1..Len(errors[c]) :
                   errors[c][k].data = Record(c, errors[c][k].index)
            /\ \A k \in 1..Len(created[c]) :
                   Carries(created[c][k].professional, Record(c, created[c][k].index))
            /\ \A k \in 1..Len(updated[c]) :
                   Carries(updated[c][k].professional, Record(c, updated[c][k].index))
            /\ (pc[c] = "done" => n = Len(payload[c]))

\* A batch whose first record failed validation and whose second was created.
C1_Witness ==
    /\ Done(1)
    /\ Len(payload[1]) = 2
    /\ Indices(errors[1]) = {0}
    /\ Indices(created[1]) = {1}

-----------------------------------------------------------------------------
(* C2, as claimed: in a batch, two valid records with the same email that no    *)
(* stored record has before the batch end in created (the earlier) and updated  *)
(* (the later), and one stored record has that email afterwards.                *)

SameEmail(a, b) ==
    /\ PassesValidation(a) /\ PassesValidation(b)
    /\ Truthy(Get(a, "email")) /\ Get(a, "email") = Get(b, "email")

C2_Original ==
    \A c \in Clients : Done(c) =>
        \A i, j \in 0..(Len(payload[c]) - 1) :
            (i < j /\ SameEmail(Record(c, i), Record(c, j))
                   /\ ~HoldsEmail(store0[c], Record(c, i).email)) =>
                /\ i \in Indices(created[c])
                /\ j \in Indices(updated[c])
                /\ Cardinality({r \in Rows(store) : r.email = Record(c, i).email}) = 1

(* C2, amended: two valid records that follow one another directly in a batch   *)
(* and share an email, where no stored record has that email or the phone of    *)
(* either record as the earlier one is processed, end in created (the earlier)  *)
(* and updated (the later); the later record is written to the row the earlier  *)
(* one inserted, and that row is the one stored record with the email once the  *)
(* later record is processed.                                                   *)

C2_Case(c, i) ==
    /\ InBulk(c) /\ i + 2 <= index[c]
    /\ SameEmail(Record(c, i), Record(c, i + 1))
    /\ ~HoldsEmail(StoreBefore(c, i), Record(c, i).email)
    /\ ~HoldsPhone(StoreBefore(c, i), Record(c, i).phone)
    /\ ~HoldsPhone(StoreBefore(c, i), Record(c, i + 1).phone)

C2_InBatchDuplicate ==
    \A c \in Clients : \A i \in 0..(MaxBatch - 1) : C2_Case(c, i) =>
        /\ i \in Indices(created[c])
        /\ (i + 1) \in Indices(updated[c])
        /\ LET first  == EntryOf(created[c], i).professional
               second == EntryOf(updated[c], i + 1).professional
               after  == StoreAfter(c, i + 1)
           IN  /\ second.id = first.id
               /\ {r \in Rows(after) : r.email = Record(c, i).email} = {second}
               /\ Carries(second, Record(c, i + 1))

\* The pair of the case with different names and different phones.
C2_Witness ==
    /\ Done(1) /\ C2_Case(1, 0)
    /\ Record(1, 0).full_name # Record(1, 1).full_name
    /\ Record(1, 0).phone # Record(1, 1).phone

-----------------------------------------------------------------------------
(* C3, as claimed: after a batch of one client, for every lookup key of the     *)
(* batch the stored record for that key holds the values of the last record of  *)
(* the batch with that key.                                                     *)

\* Record i is the last record of the batch with its lookup key.
LastWithKey(c, i) ==
    /\ PassesValidation(Record(c, i))
    /\ \A j \in (i + 1)..(Len(payload[c]) - 1) :
           PassesValidation(Record(c, j)) => KeyOf(Record(c, j)) # KeyOf(Record(c, i))

\* The stored record for the lookup key of record i
StoredFor(c, i) == FilterFirst(store, KeyOf(Record(c, i))[1], KeyOf(Record(c, i))[2])

C3_Original ==
    \A c \in Clients : Done(c) =>
        \A i \in 0..(Len(payload[c]) - 1) : LastWithKey(c, i) =>
            /\ StoredFor(c, i) # NoRow
            /\ Carries(StoredFor(c, i), Record(c, i))

(* C3, amended: after a batch of one client, for every lookup key of the batch  *)
(* whose last record was written (it is in created or updated) and whose row no *)
(* later record of the batch wrote again, the stored record for that key is the *)
(* row reported for that record and holds every value the record carries.       *)

OkEntries(c) ==
    {created[c][k] : k \in 1..Len(created[c])} \cup {updated[c][k] : k \in 1..Len(updated[c])}

\* Record i was written and no later record of the batch wrote the same row.
LastWriteOfRow(c, i) ==
    \E en \in OkEntries(c) :
        /\ en.index = i
        /\ \A later \in OkEntries(c) :
               later.index > i => later.professional.id # en.professional.id

C3_LastWriteWins ==
    \A c \in Clients : Done(c) =>
        \A i \in 0..(Len(payload[c]) - 1) :
            (LastWithKey(c, i) /\ LastWriteOfRow(c, i)) =>
                /\ StoredFor(c, i) # NoRow
                /\ \E en \in OkEntries(c) : en.index = i /\ en.professional = StoredFor(c, i)
                /\ Carries(StoredFor(c, i), Record(c, i))

\* Two records with one key and different names, both written: the second wins.
C3_Witness ==
    /\ Done(1) /\ Len(payload[1]) = 2
    /\ KeyOf(Record(1, 0)) = KeyOf(Record(1, 1))
    /\ Record(1, 0).full_name # Record(1, 1).full_name
    /\ LastWithKey(1, 1) /\ LastWriteOfRow(1, 1)
    /\ Indices(updated[1]) = {0, 1}

-----------------------------------------------------------------------------
(* C4, as claimed: the same valid record sent in two bulk calls that follow one *)
(* another, its key not stored before the first: created in the first call,     *)
(* updated in the second, one more stored record in total, and the stored       *)
(* record holds the values sent.                                                *)

\* Client c is at the answer of a one-record call that repeats the one-record
\* call it made directly before, and the key of the record was not stored then.
C4_Case(c) ==
    /\ Done(c) /\ Len(payload[c]) = 1
    /\ prev[c] # NoCall /\ prev[c].payload = payload[c]
    /\ PassesValidation(Record(c, 0))
    /\ FilterFirst(prev[c].store0, KeyOf(Record(c, 0))[1], KeyOf(Record(c, 0))[2]) = NoRow

C4_Outcome(c) ==
    /\ Indices(prev[c].created) = {0} /\ prev[c].updated = <<>> /\ prev[c].errors = <<>>
    /\ Indices(updated[c]) = {0} /\ created[c] = <<>> /\ errors[c] = <<>>
    /\ Len(store) = Len(prev[c].store0) + 1
    /\ StoredFor(c, 0) = updated[c][1].professional
    /\ Carries(StoredFor(c, 0), Record(c, 0))

C4_Original == \A c \in Clients : C4_Case(c) => C4_Outcome(c)

(* C4, amended: the same holds when, before the first call, no stored record    *)
(* holds the phone of the record or its email (an email that is not null).      *)

C4_Free(c) ==
    LET r == Record(c, 0)
    IN  /\ ~HoldsPhone(prev[c].store0, r.phone)
        /\ (Get(r, "email") # Null => ~HoldsEmail(prev[c].store0, r.email))

C4_Resubmission == \A c \in Clients : (C4_Case(c) /\ C4_Free(c)) => C4_Outcome(c)

\* The second call has answered, on a table that held another record before the first.
C4_Witness == C4_Case(1) /\ C4_Free(1) /\ Len(prev[1].store0) = 1

-----------------------------------------------------------------------------
(* C5, as claimed: a batch with N records that pass validation and M that fail  *)
(* it answers len(created) + len(updated) = N and len(errors) = M, and the      *)
(* records that failed have no effect on the table.                             *)

Valid(c) == {i \in 0..(Len(payload[c]) - 1) : PassesValidation(Record(c, i))}
Invalid(c) == {i \in 0..(Len(payload[c]) - 1) : ~PassesValidation(Record(c, i))}
Rejected(c) == {k \in 1..Len(errors[c]) : IsIntegrityError(errors[c][k])}

NoEffectOfInvalid(c) == \A i \in Invalid(c) : StoreAfter(c, i) = StoreBefore(c, i)

C5_Original ==
    \A c \in Clients : Done(c) =>
        /\ Len(created[c]) + Len(updated[c]) = Cardinality(Valid(c))
        /\ Len(errors[c]) = Cardinality(Invalid(c))
        /\ NoEffectOfInvalid(c)

(* C5, amended: with R the number of valid records whose write the table        *)
(* rejected with a constraint violation, len(created) + len(updated) = N - R    *)
(* and len(errors) = M + R; the errors of the valid records are those R         *)
(* rejections, and the records that failed validation have no effect on the     *)
(* table.                                                                       *)

C5_PartialSuccess ==
    \A c \in Clients : Done(c) =>
        /\ Len(created[c]) + Len(updated[c]) = Cardinality(Valid(c)) - Cardinality(Rejected(c))
        /\ Len(errors[c]) = Cardinality(Invalid(c)) + Cardinality(Rejected(c))
        /\ \A k \in 1..Len(errors[c]) :
               IsIntegrityError(errors[c][k]) <=> errors[c][k].index \in Valid(c)
        /\ NoEffectOfInvalid(c)

\* One record failed validation and the write of the other, valid, was rejected.
C5_Witness ==
    /\ Done(1) /\ Cardinality(Valid(1)) = 1 /\ Cardinality(Invalid(1)) = 1
    /\ Cardinality(Rejected(1)) = 1
    /\ Invalid(1) = {0}

-----------------------------------------------------------------------------
(* C6: cross-identity conflict.  With A (email a, phone p) and B (another       *)
(* email b, phone q) stored, a batch of the one valid record with email a and   *)
(* phone q answers one errors entry and nothing created or updated, and the     *)
(* table is as it was: no field of A or of B has changed.                       *)

C6_Case(c) ==
    /\ Done(c) /\ Len(payload[c]) = 1
    /\ PassesValidation(Record(c, 0))
    /\ Truthy(Get(Record(c, 0), "email"))
    /\ \E A, B \in Rows(store0[c]) :
           /\ A.id # B.id
           /\ A.email = Record(c, 0).email /\ A.phone # Record(c, 0).phone
           /\ Truthy(B.email) /\ B.email # A.email /\ B.phone = Record(c, 0).phone

C6_CrossIdentityConflict ==
    \A c \in Clients : C6_Case(c) =>
        /\ Len(errors[c]) = 1 /\ errors[c][1].index = 0
        /\ IsIntegrityError(errors[c][1])
        /\ created[c] = <<>> /\ updated[c] = <<>>
        /\ store = store0[c]

C6_Witness == C6_Case(1)

-----------------------------------------------------------------------------
(* C7: fallback lookup.  When a stored record has no email and a valid record   *)
(* with that phone and no email (omitted or null) is processed, the stored      *)
(* record is the one updated: the record is reported in updated with the values *)
(* sent, on the row found by phone, and the number of stored records is as      *)
(* before.                                                                      *)

C7_Case(c, i) ==
    /\ InBulk(c) /\ i + 1 <= index[c]
    /\ PassesValidation(Record(c, i))
    /\ Get(Record(c, i), "email") = Null
    /\ \E r \in Rows(StoreBefore(c, i)) :
           r.phone = Record(c, i).phone /\ ~Truthy(r.email)

C7_FallbackLookup ==
    \A c \in Clients : \A i \in 0..(MaxBatch - 1) : C7_Case(c, i) =>
        /\ i \in Indices(updated[c])
        /\ LET row == EntryOf(updated[c], i).professional
               old == FilterFirst(StoreBefore(c, i), "phone", Record(c, i).phone)
           IN  /\ row.id = old.id
               /\ Carries(row, Record(c, i))
               /\ StoreAfter(c, i)[row.id] = row
               /\ Len(StoreAfter(c, i)) = Len(StoreBefore(c, i))

\* A stored phone-only record is sent again with another name.
C7_Witness ==
    /\ Done(1) /\ C7_Case(1, 0)
    /\ FilterFirst(store0[1], "phone", Record(1, 0).phone).full_name # Record(1, 0).full_name

-----------------------------------------------------------------------------
(* C8: uniqueness of the table.  In every reachable state, whatever single      *)
(* creates and bulk batches ran and however their statements interleaved, no    *)
(* two stored records share a non-empty email and no two share a phone.         *)

C8_StoreUnique ==
    \A k1, k2 \in 1..Len(store) :
        k1 # k2 =>
            /\ store[k1].phone # store[k2].phone
            /\ (Truthy(store[k1].email) => store[k1].email # store[k2].email)

\* Two requests raced for one identifier: the single create of client 2 passed its
\* unique validators, the batch of client 1 inserted first, and the INSERT of
\* client 2 was rejected (500); one record is stored.
C8_Witness ==
    /\ Len(store) = 1
    /\ op[2] = "create" /\ status[2] = 500
    /\ Len(created[1]) = 1

-----------------------------------------------------------------------------
(* C9, as claimed: the update is a whole-record replace.  Every normalized      *)
(* field of the matched record is overwritten from the input, a field the input *)
(* omitted with its default (company_name and job_title "", email null), so     *)
(* nothing of the previous values is left.                                      *)

\* The input with the defaults for the fields it omits
WithDefaults(raw) ==
    [f \in WritableFields |-> IF Has(raw, f) THEN raw[f] ELSE ModelDefaults[f]]

C9_Original ==
    \A c \in Clients : InBulk(c) =>
        \A k \in 1..Len(updated[c]) :
            \A f \in WritableFields :
                updated[c][k].professional[f] = WithDefaults(Record(c, updated[c][k].index))[f]

(* C9, amended: the update overwrites, on the matched record, every field the   *)
(* input carries and leaves every field the input omitted at its stored value   *)
(* (an omitted company_name keeps the stored company_name); the row is stored   *)
(* so, under the id it had.                                                     *)

C9_UpdateOverwritesGivenFields ==
    \A c \in Clients : InBulk(c) =>
        \A k \in 1..Len(updated[c]) :
            LET i    == updated[c][k].index
                row  == updated[c][k].professional
                item == Record(c, i)
            IN  /\ row.id \in 1..Len(StoreBefore(c, i))
                /\ \A f \in WritableFields :
                       row[f] = IF Has(item, f) THEN item[f] ELSE StoreBefore(c, i)[row.id][f]
                /\ StoreAfter(c, i)[row.id] = row

\* A record with a company name was updated by an input that omits company_name
\* and changes the name.
C9_Witness ==
    /\ Done(1) /\ Len(updated[1]) = 1
    /\ LET i   == updated[1][1].index
           row == updated[1][1].professional
       IN  /\ ~Has(Record(1, i), "company_name")
           /\ StoreBefore(1, i)[row.id].company_name = "C1"
           /\ StoreBefore(1, i)[row.id].full_name # row.full_name

-----------------------------------------------------------------------------
(* C10: failure isolation.  A record that ends in errors, by failed validation  *)
(* or by a rejected write, leaves the table as it was when its processing       *)
(* began; a batch whose records all fail validation leaves the table unchanged  *)
(* and answers empty created and updated.                                       *)

C10_FailureIsolation ==
    \A c \in Clients : InBulk(c) =>
        /\ \A k \in 1..Len(errors[c]) :
               StoreAfter(c, errors[c][k].index) = StoreBefore(c, errors[c][k].index)
        /\ (Done(c) /\ Valid(c) = {}) =>
               /\ store = store0[c]
               /\ created[c] = <<>> /\ updated[c] = <<>>
               /\ Len(errors[c]) = Len(payload[c])

\* A batch with a record that failed validation and a record whose UPDATE of a
\* matched row, with another name, was rejected.
C10_Witness ==
    /\ Done(1) /\ Len(errors[1]) = 2
    /\ Cardinality(Invalid(1)) = 1
    /\ \E k \in 1..2 :
           /\ IsIntegrityError(errors[1][k])
           /\ \E r \in Rows(store) :
                  r.email = errors[1][k].data.email /\ r.full_name # errors[1][k].data.full_name

-----------------------------------------------------------------------------
(* C11, as claimed: two bulk calls run concurrently and each contains a valid   *)
(* record with the same lookup key, which no stored record has when the calls   *)
(* start.  Once both have answered, both answered 200, one stored record has    *)
(* the key, at most one call reports its record in created, and a record that   *)
(* is not created or updated is an errors entry with the constraint violation.  *)

\* Record i of client 1 and record j of client 2 are valid and share a lookup key
\* that no stored record had when either call started; both calls have answered.
C11_Race(i, j) ==
    /\ pc[1] = "done" /\ op[1] = "bulk" /\ pc[2] = "done" /\ op[2] = "bulk"
    /\ i < Len(payload[1]) /\ j < Len(payload[2])
    /\ PassesValidation(Record(1, i)) /\ PassesValidation(Record(2, j))
    /\ KeyOf(Record(1, i)) = KeyOf(Record(2, j))
    /\ \A c \in Clients :
           FilterFirst(store0[c], KeyOf(Record(1, i))[1], KeyOf(Record(1, i))[2]) = NoRow

\* The rows of the table that hold the lookup key k
RowsWithKey(st, k) == {r \in Rows(st) : r[k[1]] = k[2]}

C11_Outcome(i, j) ==
    /\ status[1] = 200 /\ status[2] = 200
    /\ Cardinality(RowsWithKey(store, KeyOf(Record(1, i)))) = 1
    /\ ~(i \in Indices(created[1]) /\ j \in Indices(created[2]))
    /\ (i \notin Indices(created[1]) \cup Indices(updated[1]) =>
            i \in Indices(errors[1]) /\ IsIntegrityError(EntryOf(errors[1], i)))
    /\ (j \notin Indices(created[2]) \cup Indices(updated[2]) =>
            j \in Indices(errors[2]) /\ IsIntegrityError(EntryOf(errors[2], j)))

C11_Original ==
    \A i, j \in 0..(MaxBatch - 1) : C11_Race(i, j) => C11_Outcome(i, j)

(* C11, amended: the same holds when, besides, no stored record had the phone   *)
(* of either record when the calls started and no other record of the two       *)
(* batches carries the phone or the email of either record; exactly one of the  *)
(* two calls then reports its record in created.                                *)

\* Nothing else, stored at the start or sent in the two batches, holds an
\* identifier of the two records.
C11_Alone(i, j) ==
    LET a == Record(1, i)
        b == Record(2, j)
        clash(x) == \/ x.phone \in {a.phone, b.phone}
                    \/ (Truthy(Get(x, "email")) /\ Get(x, "email") \in {Get(a, "email"), Get(b, "email")})
    IN  /\ \A c \in Clients : \A r \in Rows(store0[c]) : ~clash(r)
        /\ \A k \in 0..(Len(payload[1]) - 1) :
               (k # i /\ Has(Record(1, k), "phone")) => ~clash(Record(1, k))
        /\ \A k \in 0..(Len(payload[2]) - 1) :
               (k # j /\ Has(Record(2, k), "phone")) => ~clash(Record(2, k))

C11_ConcurrentSameKey ==
    \A i, j \in 0..(MaxBatch - 1) : (C11_Race(i, j) /\ C11_Alone(i, j)) =>
        /\ C11_Outcome(i, j)
        /\ (i \in Indices(created[1])) # (j \in Indices(created[2]))

\* Both lookups missed, client 2 inserted first and the INSERT of client 1 was
\* rejected: client 1 reports the constraint violation, with 200.
C11_Witness ==
    /\ C11_Race(0, 0) /\ C11_Alone(0, 0)
    /\ 0 \in Indices(errors[1]) /\ IsIntegrityError(EntryOf(errors[1], 0))
    /\ 0 \in Indices(created[2])
    /\ Record(1, 0).full_name # Record(2, 0).full_name

-----------------------------------------------------------------------------
(* C12: a bulk call is answered 400 or 200, nothing else.  The 400 is the       *)
(* answer to a payload that is no list: it comes before any item is processed,  *)
(* with empty buckets and the table as it was.  A call whose loop over the list *)
(* runs has no answer but the 200 with the three buckets, one entry per record, *)
(* whatever number of records failed validation or were rejected at the write.  *)

C12_BadRequestOr200 ==
    \A c \in Clients : op[c] = "bulk" =>
        /\ pc[c] \in {"loop", "write"} => status[c] = 0
        /\ pc[c] = "done" =>
              \/ /\ status[c] = 400
                 /\ index[c] = 0 /\ pre[c] = <<>>
                 /\ created[c] = <<>> /\ updated[c] = <<>> /\ errors[c] = <<>>
                 /\ store = store0[c]
              \/ /\ status[c] = 200
                 /\ Len(pre[c]) = Len(payload[c])
                 /\ Len(created[c]) + Len(updated[c]) + Len(errors[c]) = Len(payload[c])

\* A batch whose records were all rejected at the write is answered 200.
C12_Witness ==
    /\ Done(1) /\ Len(payload[1]) = 2
    /\ Len(errors[1]) = 2
    /\ \A k \in 1..2 : IsIntegrityError(errors[1][k])

-----------------------------------------------------------------------------
(* C13: single create checks uniqueness against the table.  A candidate whose   *)
(* email is the email of a stored record, or whose phone is the phone of a      *)
(* stored record, is answered 400 with an error on that field and the table is  *)
(* as it was; a candidate that passes validation is answered 201 and the table  *)
(* has exactly one more record, the candidate's.                                *)

\* The candidate of the single create of client c
Candidate(c) == payload[c][1]

\* The candidate's email (when it has one) or phone is on a stored record.
TakenEmail(c) ==
    /\ Truthy(Get(Candidate(c), "email"))
    /\ HoldsEmail(store0[c], Candidate(c).email)
TakenPhone(c) ==
    /\ Has(Candidate(c), "phone") /\ HoldsPhone(store0[c], Candidate(c).phone)

\* The single create of client c was answered 400 with an error on field f.
RejectedOn(c, f) == pc[c] = "done" /\ status[c] = 400 /\ f \in DOMAIN body[c]

C13_Outcome(c) ==
    /\ TakenEmail(c) => RejectedOn(c, "email")
    /\ TakenPhone(c) => RejectedOn(c, "phone")
    /\ pc[c] = "c_save" => store = store0[c]
    /\ (pc[c] = "done" /\ status[c] = 400) =>
           /\ store = store0[c]
           /\ (~PassesValidation(Candidate(c)) \/ TakenEmail(c) \/ TakenPhone(c))
    /\ (pc[c] = "done" /\ status[c] # 400) =>
           /\ status[c] = 201
           /\ Len(store) = Len(store0[c]) + 1
           /\ SubSeq(store, 1, Len(store0[c])) = store0[c]
           /\ Carries(store[Len(store)], Candidate(c))
           /\ body[c] = store[Len(store)]

C13_LiveUniqueness == \A c \in Clients : op[c] = "create" => C13_Outcome(c)

\* The same for the candidates whose email is not the empty string.
C13_NonBlankEmail ==
    \A c \in Clients :
        (op[c] = "create" /\ Get(Candidate(c), "email") # "") => C13_Outcome(c)

\* A candidate with the phone of a stored record and another email was rejected.
C13_Witness ==
    /\ op[1] = "create" /\ RejectedOn(1, "phone") /\ ~RejectedOn(1, "email")
    /\ TakenPhone(1) /\ ~TakenEmail(1) /\ Truthy(Get(Candidate(1), "email"))

-----------------------------------------------------------------------------
(* C14, as claimed: the list response is strictly descending by creation time:  *)
(* every record of the response is newer than the one that follows it.          *)

\* The list request of client c is answered.
Listed(c) == op[c] = "list" /\ pc[c] = "done"

\* The query string of the list request of client c
Query(c) == payload[c][1]

C14_Original ==
    \A c \in Clients : Listed(c) =>
        \A k \in 1..(Len(body[c]) - 1) : body[c][k].created_at > body[c][k + 1].created_at

(* C14, amended: the list response is descending by creation time, newest       *)
(* first: a record never comes after an older one, and records of the same      *)
(* creation time come in an order that is not determined.  An update of a bulk  *)
(* call leaves the creation time of the matched record and every other record   *)
(* as they were, so it does not change the position of a record relative to the *)
(* records of another creation time.                                            *)

C14_ListOrdering ==
    \A c \in Clients :
        /\ Listed(c) =>
               \A j, k \in 1..Len(body[c]) :
                   body[c][j].created_at > body[c][k].created_at => j < k
        /\ InBulk(c) =>
               \A n \in 1..Len(updated[c]) :
                   LET i   == updated[c][n].index
                       row == updated[c][n].professional
                   IN  /\ Len(StoreAfter(c, i)) = Len(StoreBefore(c, i))
                       /\ \A m \in 1..Len(StoreBefore(c, i)) :
                              StoreAfter(c, i)[m].created_at = StoreBefore(c, i)[m].created_at
                       /\ row.created_at = StoreBefore(c, i)[row.id].created_at

\* Two records are listed, the newer first; the older one is a record that was
\* updated after its insert (its company name was set by one input, its email
\* by another).
C14_Witness ==
    /\ Listed(1) /\ Len(body[1]) = 2
    /\ body[1][1].created_at > body[1][2].created_at
    /\ body[1][2].company_name = "C1" /\ body[1][2].email = ""
    /\ body[1][2].phone = "2"

-----------------------------------------------------------------------------
(* C15, as claimed: a list request with a source parameter is answered 200 with *)
(* exactly the stored records whose source is the value of the parameter, so    *)
(* with no record for a value that is none of direct, partner, internal; the    *)
(* table is as it was.                                                          *)

\* The records of the list response
Answer(c) == {body[c][k] : k \in 1..Len(body[c])}

C15_Original ==
    \A c \in Clients : (Listed(c) /\ Has(Query(c), "source")) =>
        /\ status[c] = 200
        /\ Answer(c) = {r \in Rows(store0[c]) : r.source = Query(c).source}
        /\ Query(c).source \notin SourceChoices => body[c] = <<>>
        /\ store = store0[c]

(* C15, amended: a list request with a source parameter whose value is not      *)
(* empty once the surrounding whitespace is removed is answered 200 with        *)
(* exactly the stored records whose source is that value without the            *)
(* whitespace, each once; with no record when that is none of direct, partner,  *)
(* internal.  A request without the parameter, or with an empty or blank value, *)
(* is answered with every stored record.  The table is as it was.               *)

C15_SourceFilter ==
    \A c \in Clients : Listed(c) =>
        LET q == Query(c)
            filtered == Has(q, "source") /\ Strip(q.source) # ""
        IN  /\ status[c] = 200
            /\ Len(body[c]) = Cardinality(Answer(c))
            /\ filtered => Answer(c) = {r \in Rows(store0[c]) : r.source = Strip(q.source)}
            /\ (filtered /\ Strip(q.source) \notin SourceChoices) => body[c] = <<>>
            /\ ~filtered => Answer(c) = Rows(store0[c])
            /\ store = store0[c]

\* A partner record and a direct record are stored; ?source=partner lists one.
C15_Witness ==
    /\ Listed(1) /\ Has(Query(1), "source") /\ Query(1).source = "partner"
    /\ Len(store) = 2 /\ Len(body[1]) = 1
    /\ \E r \in Rows(store) : r.source = "direct"

-----------------------------------------------------------------------------
(* C16: one lookup key per record, the email when the record has one and the    *)
(* phone otherwise.  With the requests served one after the other, a record is  *)
(* reported in updated only if a stored record had its lookup-key value as its  *)
(* processing began, and the row updated is that record; it is reported in      *)
(* created only if no stored record had it then.  A record with an email that   *)
(* no stored record has is never updated, whoever holds its phone.              *)

\* The stored record with the lookup key of record i as its processing began
MatchBefore(c, i) ==
    FilterFirst(StoreBefore(c, i), KeyOf(Record(c, i))[1], KeyOf(Record(c, i))[2])

-----------------------------------------------------------------------------
(* C17: records without an email do not collide on the email.  A valid record   *)
(* whose email is omitted, null or the empty string, and whose phone no stored  *)
(* record has as its processing begins, is created; so a batch of two such      *)
(* records with different unused phones reports both in created.                *)

\* Record i of the batch of c is processed, is valid and has no email, and its
\* phone was free when its processing began.
C17_Case(c, i) ==
    /\ InBulk(c) /\ i + 1 <= index[c]
    /\ PassesValidation(Record(c, i))
    /\ ~Truthy(Get(Record(c, i), "email"))
    /\ ~HoldsPhone(StoreBefore(c, i), Record(c, i).phone)

C17_NoEmailNoCollision ==
    \A c \in Clients : \A i \in 0..(MaxBatch - 1) :
        C17_Case(c, i) => i \in Indices(created[c])

-----------------------------------------------------------------------------
(* C18, as claimed: with the requests served one after the other, a write of a  *)
(* bulk call is rejected with the constraint violation only when the lookup key *)
(* of the record matched a stored record and another field of the input (the    *)
(* phone for an email key, the email for a phone key) is held by a different    *)
(* stored record; a record whose key matched nothing is never rejected.         *)

\* Another stored record than the matched one holds field f of record i.
HeldByAnother(c, i, f) ==
    LET raw == Record(c, i)
    IN  /\ Has(raw, f) /\ raw[f] # Null
        /\ \E r \in Rows(StoreBefore(c, i)) : r[f] = raw[f] /\ r.id # MatchBefore(c, i).id

OtherField(f) == IF f = "email" THEN "phone" ELSE "email"

C18_Original ==
    \A c \in Clients : InBulk(c) =>
        \A k \in 1..Len(errors[c]) : IsIntegrityError(errors[c][k]) =>
            LET i == errors[c][k].index
            IN  /\ MatchBefore(c, i) # NoRow
                /\ HeldByAnother(c, i, OtherField(KeyOf(Record(c, i))[1]))

(* C18, amended: with the requests served one after the other, a write of a     *)
(* bulk call is rejected with the constraint violation exactly when the phone   *)
(* of the input, or its email when the input carries one that is not null, is   *)
(* held by a stored record other than the one the lookup matched.  This covers  *)
(* the record whose lookup key matched nothing: its insert is rejected when     *)
(* another record holds its phone (or its email, for the empty string).         *)

C18_RejectedWrites ==
    \A c \in Clients : InBulk(c) =>
        \A i \in 0..(index[c] - 1) : PassesValidation(Record(c, i)) =>
            ((i \in Indices(errors[c]) /\ IsIntegrityError(EntryOf(errors[c], i)))
                <=> (HeldByAnother(c, i, "phone") \/ HeldByAnother(c, i, "email")))

\* The lookup by a new email matched nothing and the insert was rejected: the
\* phone is held by a stored record.
C18_Witness ==
    /\ Done(1) /\ Len(errors[1]) = 1 /\ IsIntegrityError(errors[1][1])
    /\ LET i == errors[1][1].index
       IN  /\ Truthy(Get(Record(1, i), "email"))
           /\ MatchBefore(1, i) = NoRow
           /\ HeldByAnother(1, i, "phone")

-----------------------------------------------------------------------------
(* C19: the branch for a record with neither email nor phone is never taken.    *)
(* A record without a phone (omitted, null or empty), with or without an email, *)
(* fails validation with an error on phone; no errors entry carries the         *)
(* "Either email or phone is required." error; every record that reaches the    *)
(* lookup and the write has a phone that is not empty.                          *)

NoPhone(raw) == ~Truthy(Get(raw, "phone"))

C19_DefensiveBranchUnreachable ==
    \A c \in Clients : InBulk(c) =>
        /\ \A k \in 1..Len(errors[c]) :
               /\ errors[c][k].errors # KeyRequired
               /\ NoPhone(errors[c][k].data) => "phone" \in DOMAIN errors[c][k].errors
        /\ \A i \in 0..(index[c] - 1) : NoPhone(Record(c, i)) => i \in Indices(errors[c])
        /\ pc[c] = "write" => Truthy(Get(validated[c], "phone"))
        /\ \A en \in OkEntries(c) : Truthy(en.professional.phone)

\* A batch of a record with an email and no phone and a record with neither:
\* both failed validation on the phone.
C19_Witness ==
    /\ Done(1) /\ Len(errors[1]) = 2
    /\ \A k \in 1..2 : NoPhone(errors[1][k].data) /\ "phone" \in DOMAIN errors[1][k].errors
    /\ \E k \in 1..2 : Truthy(Get(errors[1][k].data, "email"))
    /\ \E k \in 1..2 : ~Truthy(Get(errors[1][k].data, "email"))

-----------------------------------------------------------------------------
(* C20, as claimed: the id and the created_at of a stored record never change,  *)
(* no record disappears, and the creation times follow the insertion order: a   *)
(* record inserted later is not older than one inserted before it.  This is to  *)
(* hold whatever requests run, concurrent ones included.                        *)

\* A step keeps every stored record in its place with its id and created_at.
KeepsReadOnlyFields ==
    /\ Len(store') >= Len(store)
    /\ \A k \in 1..Len(store) :
           /\ store[k].id = k
           /\ store'[k].id = store[k].id
           /\ store'[k].created_at = store[k].created_at

\* The creation times do not decrease along the insertion order (the ids).
MonotoneInInsertionOrder(st) ==
    \A j, k \in 1..Len(st) : j < k => st[j].created_at <= st[k].created_at

C20_Original == [][KeepsReadOnlyFields /\ MonotoneInInsertionOrder(store')]_vars

(* C20, amended: the id and the created_at of a stored record never change and  *)
(* no record disappears; an update writes the editable fields only.  A record   *)
(* is not older than the records that were stored when the request inserting it *)
(* last read the table (its lookup, or the validation of a single create), so   *)
(* creation times do not decrease along the insertion order of requests served  *)
(* one after the other; they may be equal.  A record inserted by a concurrent   *)
(* request after that read may be newer although it was inserted before.        *)

\* Every record a request reports as inserted is not older than the records that
\* were stored at the read that preceded its INSERT.
NotOlderThanSeen ==
    \A c \in Clients :
        /\ op[c] = "bulk" =>
               \A n \in 1..Len(created[c]) :
                   \A r \in Rows(StoreBefore(c, created[c][n].index)) :
                       r.created_at <= created[c][n].professional.created_at
        /\ (op[c] = "create" /\ pc[c] = "done" /\ status[c] = 201) =>
               \A r \in Rows(store0[c]) : r.created_at <= body[c].created_at

C20_ReadOnlyFields == [][KeepsReadOnlyFields /\ NotOlderThanSeen']_vars

\* Client 1 inserted a record and updated it with another name while another
\* record was stored: the row has the id and the created_at of its insert.
C20_Witness ==
    /\ Len(store) = 2 /\ Len(created[1]) = 1 /\ Len(updated[1]) = 1
    /\ updated[1][1].professional.id = created[1][1].professional.id
    /\ updated[1][1].professional.created_at = created[1][1].professional.created_at
    /\ updated[1][1].professional # created[1][1].professional
    /\ store[updated[1][1].professional.id] = updated[1][1].professional

-----------------------------------------------------------------------------
(* C21: records are never deleted and are inserted only by a reported create.   *)
(* With the requests served one after the other, every step of a running bulk   *)
(* call keeps each stored record under its id and adds one row when it appends  *)
(* a created entry, none otherwise (a step that appends an updated or an errors *)
(* entry leaves the number of records as it is); so the table holds as many     *)
(* records as when the call started plus one per created entry, the records     *)
(* stored at the start among them, and a created entry carries a new id.        *)

\* A step of the bulk call of c: the stored records stay, one row more exactly
\* when a created entry is appended.
C21_Step(c) ==
    /\ Len(store') = Len(store) + (Len(created'[c]) - Len(created[c]))
    /\ (updated'[c] # updated[c] \/ errors'[c] # errors[c]) => Len(store') = Len(store)
    /\ \A k \in 1..Len(store) : store'[k].id = store[k].id

\* The table against the table at the start of the bulk call of c
CountsSinceStart(c) ==
    /\ Len(store) = Len(store0[c]) + Len(created[c])
    /\ \A k \in 1..Len(store0[c]) : store[k].id = store0[c][k].id
    /\ \A n \in 1..Len(created[c]) :
           /\ created[c][n].professional.id > Len(store0[c])
           /\ store[created[c][n].professional.id].id = created[c][n].professional.id

C21_RecordCount ==
    [][\A c \in Clients : (op[c] = "bulk" /\ pc[c] \in {"loop", "write"}) =>
          C21_Step(c) /\ CountsSinceStart(c)']_vars

\* A batch on a table of one record: one record was inserted and the other was
\* rejected at the write; the table holds the old record and the new one.
C21_Witness ==
    /\ Done(1) /\ Len(store0[1]) = 1 /\ Len(store) = 2
    /\ Len(created[1]) = 1 /\ Len(errors[1]) = 1 /\ IsIntegrityError(errors[1][1])
    /\ store[1] = store0[1][1]
    /\ store[2] = created[1][1].professional

-----------------------------------------------------------------------------
(* C22: the records of a batch are processed in submission order and each       *)
(* outcome is appended as it happens.  Every step of a running bulk call leaves *)
(* the three buckets as they are, or moves to the next position and appends one *)
(* entry, with the index of the position it leaves, at the end of one bucket;   *)
(* the answer returns the buckets as the loop left them.  So each bucket lists  *)
(* its entries in strictly ascending index order, while the call runs and in    *)
(* the response.                                                                *)

\* Bucket b2 is bucket b, or b with one entry of index i appended.
Appended(b, b2, i) ==
    /\ Len(b2) = Len(b) + 1
    /\ SubSeq(b2, 1, Len(b)) = b
    /\ b2[Len(b2)].index = i

Ascending(b) == \A j, k \in 1..Len(b) : j < k => b[j].index < b[k].index

\* A step of the running bulk call of c: no bucket changes and the position
\* stays, or the position advances by one and one bucket takes its entry.
C22_Step(c) ==
    \/ /\ index'[c] = index[c]
       /\ created'[c] = created[c] /\ updated'[c] = updated[c] /\ errors'[c] = errors[c]
    \/ /\ index'[c] = index[c] + 1
       /\ \/ Appended(created[c], created'[c], index[c])
             /\ updated'[c] = updated[c] /\ errors'[c] = errors[c]
          \/ Appended(updated[c], updated'[c], index[c])
             /\ created'[c] = created[c] /\ errors'[c] = errors[c]
          \/ Appended(errors[c], errors'[c], index[c])
             /\ created'[c] = created[c] /\ updated'[c] = updated[c]

C22_SubmissionOrder ==
    [][\A c \in Clients : (op[c] = "bulk" /\ pc[c] \in {"loop", "write"}) =>
          /\ C22_Step(c)
          /\ Ascending(created'[c]) /\ Ascending(updated'[c]) /\ Ascending(errors'[c])]_vars

\* A batch of two records answered with a bucket of two entries, of index 0 and
\* index 1 in this order.
C22_Witness ==
    /\ Done(1) /\ Len(payload[1]) = 2
    /\ \E b \in {created[1], updated[1], errors[1]} :
           Len(b) = 2 /\ b[1].index = 0 /\ b[2].index = 1

=============================================================================
